---- MODULE Spec2Model ----
(***************************************************************************)
(* Frag Race Simulator: simulate_frag_race, print_results and the          *)
(* population-dependent rate modifiers of the default configuration.       *)
(*                                                                         *)
(* The engine exists twice in the repository (jokesim.py and               *)
(* frag_race_personality_sim.py).  The two tick loops differ only in how   *)
(* the low-skill noise factor and the per-noob death rate are computed     *)
(* (one Gaussian factor / one death rate for all, against per-archetype    *)
(* ones); both factors are real numbers of either sign and both death      *)
(* rates are positive, so one model covers both files.                     *)
(*                                                                         *)
(* Time is counted in half ticks (1/120 minute): time_step = 1/60 minute   *)
(* is 2, the default respawn_delay = 0.025 minute is 3.                    *)
(* A Gaussian factor is modelled by its sign, a per-minute rate by its     *)
(* sign too: numpy's Poisson draw raises ValueError for a negative mean,   *)
(* returns 0 for a zero mean and any natural number for a positive mean.   *)
(***************************************************************************)
EXTENDS Integers, Sequences, FiniteSets

VARIABLES
    noob_count, match_duration, map_type, config,   \* the arguments of the call
    pc,                     \* "call", "loop", "returned", "printed", "raised"
    error,                  \* the exception that ended the call, or "none"
    steps, i,               \* the loop bound and the loop index
    pro_frags, noob_frags,  \* cumulative counters
    timeline,               \* the appended samples <<time, pro, noob>>
    noob_fpms,              \* per-noob personal rate, drawn once
    pro_respawn_timer, noob_respawn_timers,
    pro_death_tick, noob_death_tick,  \* index of the tick of the last death, -1 if none
    result,                 \* the returned tuple, <<>> before the return
    print_pro, print_noob,  \* the totals handed to print_results
    winner, margin,         \* what print_results prints
    bvariant, bpopulation, bvalue     \* argument and result of noob_fpm_boost

simvars == <<noob_count, match_duration, map_type, config, pc, error, steps, i,
             pro_frags, noob_frags, timeline, noob_fpms, pro_respawn_timer,
             noob_respawn_timers, pro_death_tick, noob_death_tick, result>>
reportvars == <<print_pro, print_noob, winner, margin>>
boostvars == <<bvariant, bpopulation, bvalue>>
vars == <<simvars, reportvars, boostvars>>

(* ---------------------------------------------------------------- bounds *)
MaxNoobs == 1
MaxDuration == 6
MaxPoisson == 1
MaxFrags == 4
MaxTotal == 10
MaxPopulation == 200

(* ------------------------------------------------------------- constants *)
time_step == 2
BoostScale == 300

Max(a, b) == IF a >= b THEN a ELSE b
Min(a, b) == IF a <= b THEN a ELSE b

(* The configuration dictionary: the key sets of the two mappings indexed  *)
(* by map_type, the burst range and the respawn delay.                     *)
default_config ==
    [pro_fpm_penalty |-> {"open", "tight"},
     noob_fpm_boost  |-> {"open", "tight"},
     bfg_prob        |-> 1,
     bfg_min_frags   |-> 3,
     bfg_max_frags   |-> 7,
     respawn_delay   |-> 3]

(* bfg_prob is 0.001 by default; random.random() < bfg_prob can then be    *)
(* true or false, which is all the model keeps of a positive probability   *)
(* (1); with bfg_prob = 0 it is never true.                                *)
no_bfg_config == [default_config EXCEPT !.bfg_prob = 0]

(* Configurations a caller may pass: the default one and dictionaries that *)
(* differ from it in the burst range, in the keys of pro_fpm_penalty, or   *)
(* in bfg_prob and respawn_delay (half a tick, one tick).                  *)
Configs ==
    {default_config, no_bfg_config}
    \cup {[default_config EXCEPT !.bfg_min_frags = r[1], !.bfg_max_frags = r[2]] :
            r \in {<<-2, -1>>, <<2, 1>>}}
    \cup {[no_bfg_config EXCEPT !.pro_fpm_penalty = {"cave"}]}
    \cup {[no_bfg_config EXCEPT !.respawn_delay = d] : d \in {1, 2}}

MapTypes == {"open", "cave"}
NoobCounts == -1 .. MaxNoobs
Durations == -1 .. MaxDuration
FpmLevels == {0, 1}
Noise == {-1, 1}

(* ------------------------------------------------------- pure functions *)
InvalidParameterOffByOne(n, d) == n < 0 \/ d <= 0
InvalidParameter(n, d) == n < 1 \/ d <= 0

UnknownVariant(cfg, m) == m \notin cfg.pro_fpm_penalty

StepsRoundedUp(d) == (d + time_step - 1) \div time_step
Steps(d) == d \div time_step

DecrementNoFloor(t) == t - time_step
DecrementTimer(t) == Max(0, t - time_step)

ActiveNoobs(timers) == Cardinality({j \in DOMAIN timers : timers[j] = 0})

RECURSIVE SumActive(_, _, _)
SumActive(fpms, timers, j) ==
    IF j = 0 THEN 0
    ELSE (IF timers[j] = 0 THEN fpms[j] ELSE 0) + SumActive(fpms, timers, j - 1)

NoobFpmSum(fpms, timers) == SumActive(fpms, timers, Len(fpms))

PoissonRaises(lam) == lam < 0
PoissonDraws(lam) == IF lam = 0 THEN {0} ELSE 0 .. MaxPoisson

(* np.random.poisson(fpm * time_step) if <active> else 0: the values the   *)
(* conditional expression can take; the draw is not evaluated when the     *)
(* side is inactive.                                                       *)
ProStepFragsAlways(timer, lam) == PoissonDraws(lam)
ProStepFrags(timer, lam) == IF timer = 0 THEN PoissonDraws(lam) ELSE {0}

NoobStepFrags(active, lam) == IF active > 0 THEN PoissonDraws(lam) ELSE {0}

(* poisson(...) > 0 for a draw with the given mean, for an active agent *)
DeathDrawn(timer, lam) == IF timer = 0 THEN {d > 0 : d \in PoissonDraws(lam)} ELSE {FALSE}

BfgFires(cfg) == IF cfg.bfg_prob = 0 THEN {FALSE} ELSE BOOLEAN

RandintRaises(cfg) == cfg.bfg_min_frags > cfg.bfg_max_frags
BfgBonus(cfg) == cfg.bfg_min_frags .. cfg.bfg_max_frags

Sample(t, p, n) == <<t, p, n>>

ReturnValueSwapped(tl, p, n) == <<tl, n, p>>
ReturnValue(tl, p, n) == <<tl, p, n>>

WinnerProOnTie(p, n) == IF p >= n THEN "PRO" ELSE "BEGINNER TEAM"
Winner(p, n) == IF p > n THEN "PRO" ELSE "BEGINNER TEAM"

Margin(p, n) == IF p >= n THEN p - n ELSE n - p

(* noob_fpm_boost[variant](n), times BoostScale *)
noob_fpm_boost(m, n) ==
    IF m = "open" THEN BoostScale + Min(240, 2 * (n - 50))
    ELSE BoostScale + Min(360, 3 * (n - 50))

(* ------------------------------------------------------------ the engine *)
BoostIdle == bvariant = "open" /\ bpopulation = 1 /\ bvalue = 0

SimIdle ==
    /\ pc = "call" /\ error = "none"
    /\ steps = 0 /\ i = 0
    /\ pro_frags = 0 /\ noob_frags = 0
    /\ timeline = <<>>
    /\ noob_fpms = <<>>
    /\ pro_respawn_timer = 0 /\ noob_respawn_timers = <<>>
    /\ pro_death_tick = -1 /\ noob_death_tick = <<>>
    /\ result = <<>>

ReportIdle == print_pro = 0 /\ print_noob = 0 /\ winner = "none" /\ margin = 0

Init ==
    /\ noob_count \in NoobCounts
    /\ match_duration \in Durations
    /\ map_type \in MapTypes
    /\ config \in Configs
    /\ SimIdle
    /\ ReportIdle
    /\ BoostIdle

Raise(kind) ==
    /\ pc' = "raised"
    /\ error' = kind

RejectInvalidParameter ==
    /\ pc = "call"
    /\ InvalidParameter(noob_count, match_duration)
    /\ Raise("InvalidParameter")
    /\ UNCHANGED <<noob_count, match_duration, map_type, config, steps, i,
                   pro_frags, noob_frags, timeline, noob_fpms, pro_respawn_timer,
                   noob_respawn_timers, pro_death_tick, noob_death_tick, result,
                   reportvars, boostvars>>

RejectUnknownVariant ==
    /\ pc = "call"
    /\ ~InvalidParameter(noob_count, match_duration)
    /\ UnknownVariant(config, map_type)
    /\ Raise("UnknownVariant")
    /\ UNCHANGED <<noob_count, match_duration, map_type, config, steps, i,
                   pro_frags, noob_frags, timeline, noob_fpms, pro_respawn_timer,
                   noob_respawn_timers, pro_death_tick, noob_death_tick, result,
                   reportvars, boostvars>>

Setup ==
    /\ pc = "call"
    /\ ~InvalidParameter(noob_count, match_duration)
    /\ ~UnknownVariant(config, map_type)
    /\ steps' = Steps(match_duration)
    /\ pro_frags' = 0 /\ noob_frags' = 0
    /\ timeline' = <<>>
    /\ noob_fpms' \in [1 .. noob_count -> FpmLevels]
    /\ pro_respawn_timer' = 0
    /\ noob_respawn_timers' = [j \in 1 .. noob_count |-> 0]
    /\ pro_death_tick' = -1
    /\ noob_death_tick' = [j \in 1 .. noob_count |-> -1]
    /\ i' = 0
    /\ pc' = "loop"
    /\ UNCHANGED <<noob_count, match_duration, map_type, config, error, result,
                   reportvars, boostvars>>

(* The state an exception inside the loop body leaves behind: the timers   *)
(* are already decremented, nothing else of this tick is stored.           *)
TickRaises(kind) ==
    /\ Raise(kind)
    /\ pro_respawn_timer' = DecrementTimer(pro_respawn_timer)
    /\ noob_respawn_timers' =
          [j \in 1 .. noob_count |-> DecrementTimer(noob_respawn_timers[j])]
    /\ UNCHANGED <<noob_count, match_duration, map_type, config, steps, i,
                   pro_frags, noob_frags, timeline, noob_fpms,
                   pro_death_tick, noob_death_tick, result, reportvars,
                   boostvars>>

InLoop == pc = "loop" /\ i < steps

TickKeyError ==
    /\ InLoop
    /\ map_type \notin config.noob_fpm_boost
    /\ TickRaises("KeyError")

TickPoissonError ==
    /\ InLoop
    /\ map_type \in config.noob_fpm_boost
    /\ LET pt == DecrementTimer(pro_respawn_timer)
           nt == [j \in 1 .. noob_count |-> DecrementTimer(noob_respawn_timers[j])]
       IN \E pnoise \in Noise, nnoise \in Noise :
            LET pro_fpm == pnoise
                noob_fpm == NoobFpmSum(noob_fpms, nt) * nnoise
            IN \/ pt = 0 /\ PoissonRaises(pro_fpm)
               \/ ActiveNoobs(nt) > 0 /\ PoissonRaises(noob_fpm)
    /\ TickRaises("ValueError: lam < 0")

TickRandintError ==
    /\ InLoop
    /\ map_type \in config.noob_fpm_boost
    /\ ActiveNoobs([j \in 1 .. noob_count |-> DecrementTimer(noob_respawn_timers[j])]) > 0
    /\ TRUE \in BfgFires(config)
    /\ RandintRaises(config)
    /\ TickRaises("ValueError: empty range")

TickOk ==
    /\ InLoop
    /\ map_type \in config.noob_fpm_boost
    /\ LET pt == DecrementTimer(pro_respawn_timer)
           nt == [j \in 1 .. noob_count |-> DecrementTimer(noob_respawn_timers[j])]
           active == ActiveNoobs(nt)
       IN \E pnoise \in Noise, nnoise \in Noise :
          LET pro_fpm == pnoise
              noob_fpm == NoobFpmSum(noob_fpms, nt) * nnoise
          IN /\ pt = 0 => ~PoissonRaises(pro_fpm)
             /\ active > 0 => ~PoissonRaises(noob_fpm)
             /\ \E pro_step_frags \in ProStepFrags(pt, pro_fpm),
                   ndraw \in NoobStepFrags(active, noob_fpm),
                   bfg \in BfgFires(config) :
                /\ (bfg /\ active > 0) => ~RandintRaises(config)
                /\ \E bonus \in (IF bfg /\ active > 0 THEN BfgBonus(config) ELSE {0}) :
                   LET noob_step_frags == ndraw + bonus
                   IN /\ pro_frags' = pro_frags + pro_step_frags
                      /\ noob_frags' = noob_frags + noob_step_frags
                      /\ pro_frags' <= MaxFrags /\ noob_frags' <= MaxFrags
                      /\ \E pro_died \in DeathDrawn(pt, pro_step_frags) :
                           /\ pro_respawn_timer' =
                                 IF pro_died THEN config.respawn_delay ELSE pt
                           /\ pro_death_tick' = IF pro_died THEN i ELSE pro_death_tick
                      /\ \E noob_died \in [1 .. noob_count -> BOOLEAN] :
                           /\ \A j \in 1 .. noob_count :
                                noob_died[j] \in DeathDrawn(nt[j], noob_fpms[j])
                           /\ noob_respawn_timers' =
                                 [j \in 1 .. noob_count |->
                                    IF noob_died[j] THEN config.respawn_delay ELSE nt[j]]
                           /\ noob_death_tick' =
                                 [j \in 1 .. noob_count |->
                                    IF noob_died[j] THEN i ELSE noob_death_tick[j]]
                      /\ timeline' = Append(timeline,
                                            Sample(i * time_step, pro_frags', noob_frags'))
    /\ i' = i + 1
    /\ UNCHANGED <<noob_count, match_duration, map_type, config, pc, error, steps,
                   noob_fpms, result, reportvars, boostvars>>

Return ==
    /\ pc = "loop"
    /\ i >= steps
    /\ result' = ReturnValue(timeline, pro_frags, noob_frags)
    /\ pc' = "returned"
    /\ UNCHANGED <<noob_count, match_duration, map_type, config, error, steps, i,
                   pro_frags, noob_frags, timeline, noob_fpms, pro_respawn_timer,
                   noob_respawn_timers, pro_death_tick, noob_death_tick,
                   reportvars, boostvars>>

Next ==
    \/ RejectInvalidParameter
    \/ RejectUnknownVariant
    \/ Setup
    \/ TickKeyError
    \/ TickPoissonError
    \/ TickRandintError
    \/ TickOk
    \/ Return

Spec == Init /\ [][Next]_vars

(* ------------------------------------------------------------ the reporter *)
ArgsIdle ==
    /\ noob_count = 1 /\ match_duration = 1 /\ map_type = "open"
    /\ config = default_config

InitReport ==
    /\ ArgsIdle /\ SimIdle /\ BoostIdle
    /\ print_pro \in 0 .. MaxTotal
    /\ print_noob \in 0 .. MaxTotal
    /\ winner = "none" /\ margin = 0

PrintResults ==
    /\ winner = "none"
    /\ winner' = Winner(print_pro, print_noob)
    /\ margin' = Margin(print_pro, print_noob)
    /\ UNCHANGED <<print_pro, print_noob, simvars, boostvars>>

NextReport == PrintResults

SpecReport == InitReport /\ [][NextReport]_vars

(* --------------------------------- the rate modifier as a pure function *)
InitBoost ==
    /\ ArgsIdle /\ SimIdle /\ ReportIdle
    /\ bvariant \in default_config.noob_fpm_boost
    /\ bpopulation \in 1 .. MaxPopulation
    /\ bvalue = 0

ApplyBoost ==
    /\ bvalue = 0
    /\ bvalue' = noob_fpm_boost(bvariant, bpopulation)
    /\ UNCHANGED <<bvariant, bpopulation, simvars, reportvars>>

NextBoost == ApplyBoost

SpecBoost == InitBoost /\ [][NextBoost]_vars

(* ================================================================ claims *)
RunStateUntouched ==
    /\ steps = 0 /\ i = 0
    /\ pro_frags = 0 /\ noob_frags = 0
    /\ timeline = <<>> /\ result = <<>>
    /\ noob_fpms = <<>>
    /\ pro_respawn_timer = 0 /\ noob_respawn_timers = <<>>
    /\ pro_death_tick = -1 /\ noob_death_tick = <<>>

ValidCall == noob_count >= 1 /\ match_duration > 0

(* C1: for every pair of consecutive timeline samples, the cumulative      *)
(* high-skill and low-skill counters of the later sample are at least      *)
(* those of the earlier one, for any configuration the caller passes.      *)
C1_CountersNonDecreasing ==
    \A k \in 1 .. Len(timeline) - 1 :
        /\ timeline[k + 1][2] >= timeline[k][2]
        /\ timeline[k + 1][3] >= timeline[k][3]

(* C2: a call either returns a timeline with all of its ticks, or fails    *)
(* before the first tick has changed any run state: no exception leaves    *)
(* the loop with samples appended, counters advanced or timers running.    *)
C2_NoPartialFailure ==
    /\ pc = "returned" => Len(result[1]) = steps
    /\ pc = "raised" =>
          /\ i = 0 /\ timeline = <<>>
          /\ pro_frags = 0 /\ noob_frags = 0
          /\ pro_respawn_timer = 0
          /\ \A j \in DOMAIN noob_respawn_timers : noob_respawn_timers[j] = 0

(* The least number of whole ticks that cover respawn_delay.               *)
TicksToRespawn ==
    CHOOSE m \in 0 .. config.respawn_delay :
        /\ m * time_step >= config.respawn_delay
        /\ (m - 1) * time_step < config.respawn_delay

TimerLaw(timer, death_tick) ==
    death_tick >= 0 =>
        LET since == (i - 1) - death_tick
        IN /\ since = 0 => timer = config.respawn_delay
           /\ timer = 0 <=> since >= TicksToRespawn

C4_RejectsInvalidParameter ==
    (pc # "call" /\ (noob_count < 1 \/ match_duration <= 0)) =>
        /\ pc = "raised"
        /\ error = "InvalidParameter"
        /\ RunStateUntouched

C4_Witness ==
    /\ pc = "raised" /\ error = "InvalidParameter"
    /\ noob_count = 0 /\ match_duration > 0

(* C5: an otherwise valid call whose map_type is not a key of both         *)
(* rate-modifier mappings ends with the UnknownVariant error before any    *)
(* tick executes.                                                          *)
C5_RejectsUnknownVariant ==
    (/\ pc \in {"raised", "returned"}
     /\ ValidCall
     /\ (map_type \notin config.pro_fpm_penalty \/ map_type \notin config.noob_fpm_boost))
    => (error = "UnknownVariant" /\ RunStateUntouched)

(* C6: the returned timeline has floor(match_duration / time_step)         *)
(* samples, one per tick, and sample number k (from 0) carries the         *)
(* elapsed time k * time_step.                                             *)
C6_TimelineLength ==
    /\ pc = "loop" => Len(timeline) = i
    /\ pc = "returned" =>
          LET n == Len(result[1])
          IN /\ n * time_step <= match_duration
             /\ match_duration < (n + 1) * time_step
             /\ \A k \in 1 .. n : result[1][k][1] = (k - 1) * time_step

C6_Witness ==
    /\ pc = "returned"
    /\ match_duration = 5
    /\ Len(result[1]) = 2

(* C7 as stated: every completed run returns totals equal to the           *)
(* cumulative fields of the last sample of its timeline, durations         *)
(* shorter than one tick included.                                         *)
C7_TotalsEqualLastSample ==
    pc = "returned" =>
        /\ Len(result[1]) > 0
        /\ result[2] = result[1][Len(result[1])][2]
        /\ result[3] = result[1][Len(result[1])][3]

(* C7 amended: a completed run of at least one tick returns totals equal   *)
(* to the cumulative fields of the last sample; a run shorter than one     *)
(* tick returns an empty timeline and totals 0 and 0.                      *)
C7_TotalsEqualLastSampleIfAny ==
    pc = "returned" =>
        IF Len(result[1]) = 0
        THEN match_duration < time_step /\ result[2] = 0 /\ result[3] = 0
        ELSE /\ result[2] = result[1][Len(result[1])][2]
             /\ result[3] = result[1][Len(result[1])][3]

C7_Witness ==
    /\ pc = "returned"
    /\ Len(result[1]) = 3
    /\ result[2] = 2 /\ result[3] = 1

(* C8 as stated: print_results names the low-skill side the winner only    *)
(* when its total is strictly greater; equal totals name the high-skill    *)
(* side.                                                                   *)
C8_TieFavoursPro ==
    winner # "none" =>
        /\ winner = "BEGINNER TEAM" => print_noob > print_pro
        /\ print_pro = print_noob => winner = "PRO"

(* C8 amended: print_results names the high-skill side the winner only     *)
(* when its total is strictly greater; equal totals name the low-skill     *)
(* side.                                                                   *)
C8_TieFavoursBeginners ==
    winner # "none" =>
        /\ winner \in {"PRO", "BEGINNER TEAM"}
        /\ winner = "PRO" <=> print_pro > print_noob
        /\ print_pro = print_noob => winner = "BEGINNER TEAM"

C8_Witness ==
    /\ winner = "BEGINNER TEAM"
    /\ print_pro = print_noob /\ print_pro = 3

(* The configured caps 1.8 and 2.2, times BoostScale.                      *)
BoostCap(m) == IF m = "open" THEN 540 ELSE 660

(* C9: for every population >= 1 and both variants of the default          *)
(* configuration, noob_fpm_boost is at least 1 and at most its cap.        *)
C9_BoostAtLeastOne ==
    bvalue # 0 => (bvalue >= BoostScale /\ bvalue <= BoostCap(bvariant))

(* C10: a tick in which the high-skill agent's timer is non-zero after the *)
(* decrement leaves pro_frags unchanged; a tick in which no low-skill      *)
(* agent's timer is zero after the decrement leaves noob_frags unchanged,  *)
(* the burst bonus included.                                               *)
C10_InactiveSideAddsNothing ==
    [][(pc = "loop" /\ pc' = "loop" /\ i' = i + 1) =>
          /\ pro_respawn_timer > time_step => pro_frags' = pro_frags
          /\ (\A j \in 1 .. noob_count : noob_respawn_timers[j] > time_step)
                => noob_frags' = noob_frags]_vars

C10_Witness ==
    /\ pc = "loop" /\ i >= 2
    /\ pro_respawn_timer = 1
    /\ noob_count = 1 /\ noob_respawn_timers[1] = 1
    /\ config.bfg_prob # 0

====
